---- MODULE Spec2Model ----
(***************************************************************************)
(* Customer segmentation web application (src/app.py) together with the    *)
(* business rules the repository builds (src/Models/business_rules.py).    *)
(*                                                                         *)
(* Monetary amounts are held in cents, so that the threshold 3799.39 and   *)
(* the amounts next to it are integers; recency and frequency are whole    *)
(* numbers.  Inputs are finite numbers.                                    *)
(***************************************************************************)
EXTENDS Integers, Sequences, FiniteSets, TLC

VARIABLES
    phase,           \* "startup" | "serving" | "halted": module import of app.py
    files,           \* what lies in the Models directory when the process starts
    business_rules,  \* the global business_rules of app.py (line 80)
    calls,           \* the calls of predict_customer_segment made by the last handler
    response         \* what the last handler gave back to its caller

vars == <<phase, files, business_rules, calls, response>>

-----------------------------------------------------------------------------
(* Bounds of the model *)

\* Inputs are taken this far on either side of each threshold.
Spread == 1

\* The base clusterer may answer any index in 0..MaxIndex.
MaxIndex == 7

-----------------------------------------------------------------------------
(* Configuration: src/Models/business_rules.py *)

MonetaryThreshold == 379939

FrequencyThreshold == 11

outlier_thresholds ==
    [monetary |-> MonetaryThreshold, frequency |-> FrequencyThreshold]

\* The mapping as the repository's script writes it: keyed by cluster code.
cluster_mapping ==
    [k \in {"0", "1", "2", "3", "A", "B", "C"} |->
        CASE k = "0" -> "Regular"
          [] k = "1" -> "Lapsed"
          [] k = "2" -> "Occasional"
          [] k = "3" -> "Premium"
          [] k = "A" -> "High_Spender"
          [] k = "B" -> "Power_Shopper"
          [] k = "C" -> "Elite"]

\* The seven canonical segment names (keys of cluster_descriptions).
cluster_descriptions ==
    {"Regular", "Lapsed", "Occasional", "Premium",
     "High_Spender", "Power_Shopper", "Elite"}

NoTemplate == <<>>

\* The dictionary business_rules.py dumps to business_rules.json: it sets
\* outlier_thresholds, cluster_mapping and cluster_descriptions, and no
\* response_template.
RepoRules ==
    [readable |-> TRUE, has_thresholds |-> TRUE,
     outlier_thresholds |-> outlier_thresholds,
     cluster_mapping |-> cluster_mapping,
     has_template |-> FALSE, response_template |-> NoTemplate]

\* Other contents business_rules.json may have when app.py reads it
\* (json.load, app.py lines 51-52): a mapping keyed by segment name, with
\* and without a response template; other thresholds; a document without
\* thresholds; a file that is missing or is not JSON.
NameKeyedMapping == [k \in cluster_descriptions |-> k]

SomeTemplate == <<"This customer belongs to the ", "{segment}", " segment">>

NameKeyedRules ==
    [RepoRules EXCEPT !.cluster_mapping = NameKeyedMapping,
                      !.has_template = TRUE,
                      !.response_template = SomeTemplate]

NameKeyedRulesNoTemplate ==
    [RepoRules EXCEPT !.cluster_mapping = NameKeyedMapping]

CodeKeyedRulesWithTemplate ==
    [RepoRules EXCEPT !.has_template = TRUE,
                      !.response_template = SomeTemplate]

\* Thresholds set to other values than the script's: 1200.00 and 8.
RetunedRules ==
    [NameKeyedRules EXCEPT
        !.outlier_thresholds = [monetary |-> 120000, frequency |-> 8]]

RulesWithoutThresholds ==
    [NameKeyedRules EXCEPT !.has_thresholds = FALSE]

UnreadableRules ==
    [RepoRules EXCEPT !.readable = FALSE, !.has_thresholds = FALSE]

RulesFiles ==
    {RepoRules, NameKeyedRules, NameKeyedRulesNoTemplate,
     CodeKeyedRulesWithTemplate, RetunedRules, RulesWithoutThresholds,
     UnreadableRules}

\* business_rules before load_models has returned.
NotLoaded == UnreadableRules

-----------------------------------------------------------------------------
(* Requests *)

RecencyValues == {5, 45}

FrequencyValues ==
    (FrequencyThreshold - Spread)..(FrequencyThreshold + Spread)

MonetaryValues ==
    (MonetaryThreshold - Spread)..(MonetaryThreshold + Spread)

\* A field of the form or of the JSON body: absent, not a number, or a number.
RawField(values) ==
    {[kind |-> "missing", val |-> 0], [kind |-> "text", val |-> 0]}
        \cup {[kind |-> "num", val |-> v] : v \in values}

NoError == [type |-> "", arg |-> ""]

\* float(request.form[name]): KeyError for an absent field, ValueError for
\* text that is no number, the number otherwise.
ToFloat(raw, name) ==
    CASE raw.kind = "missing" ->
            [ok |-> FALSE, val |-> 0, error |-> [type |-> "KeyError", arg |-> name]]
      [] raw.kind = "text" ->
            [ok |-> FALSE, val |-> 0, error |-> [type |-> "ValueError", arg |-> name]]
      [] OTHER ->
            [ok |-> TRUE, val |-> raw.val, error |-> NoError]

\* The three conversions in the order the handlers make them; the first
\* that raises ends the try block.
ParseInputs(raw_recency, raw_frequency, raw_monetary) ==
    LET r == ToFloat(raw_recency, "recency")
        f == ToFloat(raw_frequency, "frequency")
        m == ToFloat(raw_monetary, "monetary")
    IN  [ok |-> r.ok /\ f.ok /\ m.ok,
         recency |-> r.val, frequency |-> f.val, monetary |-> m.val,
         error |-> IF ~r.ok THEN r.error
                   ELSE IF ~f.ok THEN f.error
                   ELSE IF ~m.ok THEN m.error
                   ELSE NoError]

-----------------------------------------------------------------------------
(* The fitted models: opaque collaborators loaded from kmeans.pkl and      *)
(* scaler.pkl.  What one inference does is drawn from Oracles.             *)

Oracles ==
    {[fail |-> "scaler.transform", index |-> 0],
     [fail |-> "kmeans.predict", index |-> 0]}
        \cup {[fail |-> "none", index |-> i] : i \in 0..MaxIndex}

NoVector == <<>>

\* np.array([[recency, frequency, monetary]])
Features(recency, frequency, monetary) == <<recency, frequency, monetary>>

\* scaler.transform(features): the scaled vector, known only by what it
\* was computed from.
Transform(features) == <<"scaled", features>>

-----------------------------------------------------------------------------
(* predict_customer_segment *)

\* monetary > mv_threshold, frequency > freq_threshold
ExceedsOrEquals(value, threshold) == value >= threshold

Exceeds(value, threshold) == value > threshold

\* The if/elif chain of the outlier rules; "" when no rule applies and the
\* else branch (KMeans) is taken.
OutlierSegmentSpenderFirst(frequency, monetary, mv_threshold, freq_threshold) ==
    IF Exceeds(monetary, mv_threshold)
    THEN "High_Spender"
    ELSE IF Exceeds(monetary, mv_threshold) /\ Exceeds(frequency, freq_threshold)
    THEN "Elite"
    ELSE IF Exceeds(frequency, freq_threshold)
    THEN "Power_Shopper"
    ELSE ""

OutlierSegmentSwapped(frequency, monetary, mv_threshold, freq_threshold) ==
    IF Exceeds(monetary, mv_threshold) /\ Exceeds(frequency, freq_threshold)
    THEN "Elite"
    ELSE IF Exceeds(frequency, freq_threshold)
    THEN "High_Spender"
    ELSE IF Exceeds(monetary, mv_threshold)
    THEN "Power_Shopper"
    ELSE ""

OutlierSegmentNoPowerShopper(frequency, monetary, mv_threshold, freq_threshold) ==
    IF Exceeds(monetary, mv_threshold) /\ Exceeds(frequency, freq_threshold)
    THEN "Elite"
    ELSE IF Exceeds(monetary, mv_threshold)
    THEN "High_Spender"
    ELSE ""

OutlierSegment(frequency, monetary, mv_threshold, freq_threshold) ==
    IF Exceeds(monetary, mv_threshold) /\ Exceeds(frequency, freq_threshold)
    THEN "Elite"
    ELSE IF Exceeds(monetary, mv_threshold)
    THEN "High_Spender"
    ELSE IF Exceeds(frequency, freq_threshold)
    THEN "Power_Shopper"
    ELSE ""

\* Whether the else branch runs the scaler and KMeans.
AlwaysUsesKMeans(rule_name) == TRUE

UsesKMeans(rule_name) == rule_name = ""

\* The if/elif/else chain over cluster_num; its else takes every other index.
ClusterNameShifted(cluster_num) ==
    IF cluster_num = 0 THEN "Regular"
    ELSE IF cluster_num = 1 THEN "Occasional"
    ELSE IF cluster_num = 2 THEN "Lapsed"
    ELSE "Premium"

ClusterName(cluster_num) ==
    IF cluster_num = 0 THEN "Regular"
    ELSE IF cluster_num = 1 THEN "Lapsed"
    ELSE IF cluster_num = 2 THEN "Occasional"
    ELSE "Premium"

\* response_template.format(segment=display_name)
Format(template, display_name) ==
    [i \in DOMAIN template |->
        IF template[i] = "{segment}" THEN display_name ELSE template[i]]

NoIndex == -1

\* One call: what it was given, what it did to the models, what it decided
\* and how it ended (returned, or raised).
predict_customer_segment(recency, frequency, monetary, rules, oracle) ==
    LET mv_threshold == rules.outlier_thresholds.monetary
        freq_threshold == rules.outlier_thresholds.frequency
        rule_name == OutlierSegment(frequency, monetary, mv_threshold, freq_threshold)
        fallback == UsesKMeans(rule_name)
        features == IF fallback THEN Features(recency, frequency, monetary)
                    ELSE NoVector
        scaler_ok == fallback /\ oracle.fail # "scaler.transform"
        kmeans_ok == scaler_ok /\ oracle.fail # "kmeans.predict"
        cluster_num == IF kmeans_ok THEN oracle.index ELSE NoIndex
        cluster_name == IF ~fallback THEN rule_name
                        ELSE IF kmeans_ok THEN ClusterName(cluster_num)
                        ELSE ""
        named == cluster_name # ""
        mapped == named /\ cluster_name \in DOMAIN rules.cluster_mapping
        display_name == IF mapped THEN rules.cluster_mapping[cluster_name] ELSE ""
        formatted == mapped /\ rules.has_template
        raised ==
            IF fallback /\ ~scaler_ok
                THEN [type |-> "Exception", arg |-> "scaler.transform"]
            ELSE IF fallback /\ ~kmeans_ok
                THEN [type |-> "Exception", arg |-> "kmeans.predict"]
            ELSE IF ~mapped
                THEN [type |-> "KeyError", arg |-> cluster_name]
            ELSE IF ~formatted
                THEN [type |-> "KeyError", arg |-> "response_template"]
            ELSE NoError
    IN  [recency |-> recency, frequency |-> frequency, monetary |-> monetary,
         path |-> IF fallback THEN "kmeans" ELSE "rule",
         features |-> features,
         scaler_calls |-> IF fallback THEN 1 ELSE 0,
         kmeans_calls |-> IF scaler_ok THEN 1 ELSE 0,
         kmeans_arg |-> IF scaler_ok THEN Transform(features) ELSE NoVector,
         cluster_num |-> cluster_num,
         cluster_name |-> cluster_name,
         display_name |-> display_name,
         response |-> IF formatted
                      THEN Format(rules.response_template, display_name)
                      ELSE NoTemplate,
         raised |-> raised,
         returned |-> raised = NoError]

-----------------------------------------------------------------------------
(* Startup *)

Init ==
    /\ phase = "startup"
    /\ files \in [kmeans : BOOLEAN, scaler : BOOLEAN, rules : RulesFiles]
    /\ business_rules = NotLoaded
    /\ calls = <<>>
    /\ response = [route |-> "", status |-> 0, view |-> "", error |-> NoError]

\* load_models and the assignment at line 80: any exception is printed and
\* raised again, which ends the import of app.py.
load_models ==
    /\ phase = "startup"
    /\ IF /\ files.kmeans
          /\ files.scaler
          /\ files.rules.readable
          /\ files.rules.has_thresholds
       THEN /\ phase' = "serving"
            /\ business_rules' = files.rules
       ELSE /\ phase' = "halted"
            /\ UNCHANGED business_rules
    /\ UNCHANGED <<files, calls, response>>

-----------------------------------------------------------------------------
(* Routes *)

\* '/', '/predict-form', '/about': a template is rendered.
RenderPage ==
    /\ phase = "serving"
    /\ \E page \in {"index.html", "predict_form.html", "about.html"} :
          response' = [route |-> "page", status |-> 200, view |-> page,
                       error |-> NoError]
    /\ calls' = <<>>
    /\ UNCHANGED <<phase, files, business_rules>>

\* The inferences a call may meet: the models are consulted only when the
\* else branch runs, so a call decided by a rule meets none.
NoOracle == [fail |-> "none", index |-> 0]

OraclesFor(frequency, monetary, rules) ==
    IF UsesKMeans(OutlierSegment(frequency, monetary,
                                 rules.outlier_thresholds.monetary,
                                 rules.outlier_thresholds.frequency))
    THEN Oracles
    ELSE {NoOracle}

\* '/predict', lines 149-153 and 167-168: a conversion raised; the except
\* clause renders the error page (status 200).
predict_rejects(error) ==
    /\ calls' = <<>>
    /\ response' = [route |-> "predict", status |-> 200,
                    view |-> "error.html", error |-> error]

\* '/predict', lines 155-168: the call returned (result page) or raised
\* (error page).
predict_answers(call) ==
    /\ calls' = <<call>>
    /\ response' = [route |-> "predict", status |-> 200,
                    view |-> IF call.returned THEN "result.html" ELSE "error.html",
                    error |-> call.raised]

\* '/predict': the conversions in order, then the call; a conversion that
\* raises ends the try block before the next field is read.
predict ==
    /\ phase = "serving"
    /\ \E rr \in RawField(RecencyValues) :
        IF ~ToFloat(rr, "recency").ok
        THEN predict_rejects(ToFloat(rr, "recency").error)
        ELSE \E rf \in RawField(FrequencyValues) :
          IF ~ToFloat(rf, "frequency").ok
          THEN predict_rejects(ToFloat(rf, "frequency").error)
          ELSE \E rm \in RawField(MonetaryValues) :
            IF ~ToFloat(rm, "monetary").ok
            THEN predict_rejects(ToFloat(rm, "monetary").error)
            ELSE LET in == ParseInputs(rr, rf, rm) IN
                 \E oracle \in OraclesFor(in.frequency, in.monetary, business_rules) :
                    predict_answers(predict_customer_segment(
                        in.recency, in.frequency, in.monetary,
                        business_rules, oracle))
    /\ UNCHANGED <<phase, files, business_rules>>

\* '/api/predict', lines 180-184 and 200-201: a conversion raised.
api_predict_rejects(error) ==
    /\ calls' = <<>>
    /\ response' = [route |-> "api_predict", status |-> 400,
                    view |-> "json", error |-> error]

\* '/api/predict', lines 186-201: the call returned (the prediction as
\* JSON) or raised ({'error': str(e)} with status 400).
api_predict_answers(call) ==
    /\ calls' = <<call>>
    /\ response' = [route |-> "api_predict",
                    status |-> IF call.returned THEN 200 ELSE 400,
                    view |-> "json", error |-> call.raised]

\* '/api/predict': as '/predict', with every exception answered as JSON.
api_predict ==
    /\ phase = "serving"
    /\ \E rr \in RawField(RecencyValues) :
        IF ~ToFloat(rr, "recency").ok
        THEN api_predict_rejects(ToFloat(rr, "recency").error)
        ELSE \E rf \in RawField(FrequencyValues) :
          IF ~ToFloat(rf, "frequency").ok
          THEN api_predict_rejects(ToFloat(rf, "frequency").error)
          ELSE \E rm \in RawField(MonetaryValues) :
            IF ~ToFloat(rm, "monetary").ok
            THEN api_predict_rejects(ToFloat(rm, "monetary").error)
            ELSE LET in == ParseInputs(rr, rf, rm) IN
                 \E oracle \in OraclesFor(in.frequency, in.monetary, business_rules) :
                    api_predict_answers(predict_customer_segment(
                        in.recency, in.frequency, in.monetary,
                        business_rules, oracle))
    /\ UNCHANGED <<phase, files, business_rules>>

\* '/health'
health ==
    /\ phase = "serving"
    /\ response' = [route |-> "health", status |-> 200, view |-> "json",
                    error |-> NoError]
    /\ calls' = <<>>
    /\ UNCHANGED <<phase, files, business_rules>>

\* The three customers of '/test-example'.
test_data ==
    << [name |-> "Premium Example", recency |-> 30, frequency |-> 15,
        monetary |-> 850000],
       [name |-> "Regular Example", recency |-> 45, frequency |-> 8,
        monetary |-> 120000],
       [name |-> "Elite Example", recency |-> 10, frequency |-> 25,
        monetary |-> 1500000] >>

TestOracles(i) ==
    OraclesFor(test_data[i].frequency, test_data[i].monetary, business_rules)

\* '/test-example': the calls are made in order with no try block around
\* them, so the first that raises ends the handler with a server error.
test_example ==
    /\ phase = "serving"
    /\ \E o1 \in TestOracles(1), o2 \in TestOracles(2), o3 \in TestOracles(3) :
          LET oracles == <<o1, o2, o3>>
              all == [i \in DOMAIN test_data |->
                        predict_customer_segment(
                            test_data[i].recency, test_data[i].frequency,
                            test_data[i].monetary, business_rules, oracles[i])]
              failed == {i \in DOMAIN all : ~all[i].returned}
              last == IF failed = {} THEN Len(all)
                      ELSE CHOOSE i \in failed : \A j \in failed : i <= j
          IN  /\ calls' = SubSeq(all, 1, last)
              /\ response' =
                    [route |-> "test_example",
                     status |-> IF failed = {} THEN 200 ELSE 500,
                     view |-> "html",
                     error |-> all[last].raised]
    /\ UNCHANGED <<phase, files, business_rules>>

Next ==
    \/ load_models
    \/ RenderPage
    \/ predict
    \/ api_predict
    \/ health
    \/ test_example

Spec == Init /\ [][Next]_vars

-----------------------------------------------------------------------------
(* Properties *)

Tm == business_rules.outlier_thresholds.monetary

Tf == business_rules.outlier_thresholds.frequency

Made == {calls[i] : i \in DOMAIN calls}

IsOutlier(c) == c.monetary > Tm \/ c.frequency > Tf

\* The index-to-name table of the specification, indexed from 0.
IndexTable == <<"Regular", "Lapsed", "Occasional", "Premium">>

InTable(n) == n \in 0..(Len(IndexTable) - 1)

\* The loaded configuration maps every canonical segment and has a template.
WellConfigured ==
    /\ cluster_descriptions \subseteq DOMAIN business_rules.cluster_mapping
    /\ business_rules.has_template

\* Where an exception of a call came from.
ErrorKind(error) ==
    IF error = NoError THEN "none"
    ELSE IF error.arg \in {"scaler.transform", "kmeans.predict"} THEN "inference"
    ELSE IF error.arg \in {"recency", "frequency", "monetary"} THEN "input"
    ELSE "configuration"


C2_OnlyMonetaryAboveIsHighSpender ==
    \A c \in Made :
        (c.monetary > Tm /\ c.frequency <= Tf) =>
            c.cluster_name = "High_Spender"

\* A returned call with monetary above and frequency exactly at threshold.
C2_Witness ==
    \E c \in Made :
        /\ c.monetary > Tm /\ c.frequency = Tf
        /\ c.returned
        /\ c.cluster_name = "High_Spender"

\* C3: every call whose frequency exceeds its threshold while its monetary
\* does not has canonical segment Power_Shopper.
C3_OnlyFrequencyAboveIsPowerShopper ==
    \A c \in Made :
        (c.monetary <= Tm /\ c.frequency > Tf) =>
            c.cluster_name = "Power_Shopper"

\* A returned call with frequency above and monetary exactly at threshold.
C3_Witness ==
    \E c \in Made :
        /\ c.monetary = Tm /\ c.frequency > Tf
        /\ c.returned
        /\ c.cluster_name = "Power_Shopper"

\* C4: the comparisons are strict.  Monetary exactly at its threshold is
\* never High_Spender or Elite, frequency exactly at its threshold is never
\* Power_Shopper or Elite, and a call with both values at or below their
\* thresholds takes the clustering branch.
C4_ThresholdsAreStrict ==
    \A c \in Made :
        /\ c.monetary = Tm => c.cluster_name \notin {"High_Spender", "Elite"}
        /\ c.frequency = Tf => c.cluster_name \notin {"Power_Shopper", "Elite"}
        /\ (c.monetary <= Tm /\ c.frequency <= Tf) =>
                c.path = "kmeans" /\ c.scaler_calls = 1

\* A call with both values exactly at threshold went to the clusterer.
C4_Witness ==
    \E c \in Made :
        /\ c.monetary = Tm /\ c.frequency = Tf
        /\ c.path = "kmeans"
        /\ c.kmeans_calls = 1
        /\ c.returned

\* C5: a call whose triple satisfies an outlier condition invokes neither
\* scaler.transform nor kmeans.predict.
C5_OutliersNeverReachClusterer ==
    \A c \in Made :
        IsOutlier(c) =>
            /\ c.scaler_calls = 0
            /\ c.kmeans_calls = 0
            /\ c.features = NoVector
            /\ c.kmeans_arg = NoVector

\* /test-example has run to its end: its two outlier customers were decided
\* without the models, the one between them by KMeans.
C5_Witness ==
    /\ response.route = "test_example"
    /\ Len(calls) = 3
    /\ \A i \in {1, 3} : IsOutlier(calls[i]) /\ calls[i].returned
    /\ ~IsOutlier(calls[2]) /\ calls[2].kmeans_calls = 1

\* C6: a call with both values at or below their thresholds hands the
\* scaler the vector <<recency, frequency, monetary>> once, hands KMeans
\* the scaler's output once (unless the scaler raised), and for an index of
\* the table 0 -> Regular, 1 -> Lapsed, 2 -> Occasional, 3 -> Premium its
\* canonical segment is the table's entry.
C6_FallbackFollowsTable ==
    \A c \in Made :
        (c.monetary <= Tm /\ c.frequency <= Tf) =>
            /\ c.scaler_calls = 1
            /\ c.features = <<c.recency, c.frequency, c.monetary>>
            /\ c.kmeans_calls = IF c.raised.arg = "scaler.transform" THEN 0 ELSE 1
            /\ c.kmeans_calls = 1 =>
                    c.kmeans_arg = Transform(<<c.recency, c.frequency, c.monetary>>)
            /\ InTable(c.cluster_num) =>
                    c.cluster_name = IndexTable[c.cluster_num + 1]

\* The clusterer answered 1 for a triple at both thresholds, and the call
\* returned Lapsed.
C6_Witness ==
    \E c \in Made :
        /\ c.monetary <= Tm /\ c.frequency <= Tf
        /\ c.cluster_num = 1
        /\ c.cluster_name = "Lapsed"
        /\ c.returned

\* C7: when the clusterer answers an index outside the table, the call
\* fails with UnknownClusterIndexError and names no segment (never Premium).
\* Stated for a configuration that maps every segment and holds a template,
\* where nothing else makes the call fail.
C7_UnknownIndexIsAnError ==
    WellConfigured =>
        \A c \in Made :
            (c.path = "kmeans" /\ c.cluster_num # NoIndex /\ ~InTable(c.cluster_num)) =>
                /\ c.raised.type = "UnknownClusterIndexError"
                /\ c.cluster_name # "Premium"
                /\ ~c.returned

\* C8: with the configuration the repository builds, every canonical
\* segment a call produces is a key of cluster_mapping, so the lookup of
\* the display name never fails.
C8_DisplayLookupNeverFails ==
    business_rules = RepoRules =>
        \A c \in Made :
            c.cluster_name # "" =>
                /\ c.cluster_name \in DOMAIN business_rules.cluster_mapping
                /\ c.raised # [type |-> "KeyError", arg |-> c.cluster_name]

\* C9: the response template is in the configuration before any request
\* is served (load_models having halted startup otherwise), so no call of
\* predict_customer_segment fails for want of it.
C9_TemplatePresentBeforeServing ==
    \A c \in Made :
        c.raised # [type |-> "KeyError", arg |-> "response_template"]

\* C10: /api/predict answers a failure of scaler.transform or
\* kmeans.predict with a 5xx status and missing or non-numeric input with
\* a 4xx status.
C10_InferenceFailureIsServerError ==
    response.route = "api_predict" =>
        /\ ErrorKind(response.error) = "inference" => response.status \in 500..599
        /\ ErrorKind(response.error) = "input" => response.status \in 400..499

====
